---------------------------- MODULE Spec2Model ----------------------------
(***************************************************************************)
(* Model of the Wflow execution engine:                                    *)
(*   backend/app/services/browser_service.py  (BrowserService)             *)
(*   backend/app/api/workflows.py             (POST /{id}/execute)         *)
(*                                                                         *)
(* Python dicts are modelled as TLA+ records whose DOMAIN is the dict's    *)
(* key set, so that a missing key (KeyError) is a missing field.           *)
(* Every call on the browser is an entry of a call sequence; the outcome   *)
(* of the n-th call of one dispatch is drawn from an oracle, a function    *)
(* from call positions to BOOLEAN chosen nondeterministically.             *)
(***************************************************************************)
EXTENDS Integers, Sequences, FiniteSets, TLC

(***************************************************************************)
(* Bounds of the model                                                     *)
(***************************************************************************)
\* longest step list of a run
MaxSteps == 2
\* longest step list of an execute request
MaxReqSteps == 1
\* longest parameters.fallback_selectors list of the click specification
MaxFallbacks == 2
\* longest identified_elements list the advisor returns (click specification)
MaxAi == 2

(***************************************************************************)
(* Values                                                                  *)
(***************************************************************************)
\* Python None in a string-valued slot (screenshot, error, data)
None == "None"
\* the path _take_screenshot returns when browser.screenshot succeeded
ShotPath == "screenshots/screenshot.png"
\* elapsed seconds of a dispatch (value abstracted)
Duration == "seconds"
Locators == {"#a", "#b"}
Url == "https://x"
EmptyDict == <<>>

\* dict.get(key, default)
Get(d, key, default) == IF key \in DOMAIN d THEN d[key] ELSE default

\* d[key] = value on a dict (adds the key when it is missing)
SetKey(d, key, value) ==
    [k \in (DOMAIN d) \cup {key} |-> IF k = key THEN value ELSE d[k]]

\* Python truthiness of a screenshot slot: None and "" are falsy
Truthy(s) == s # None /\ s # ""

(***************************************************************************)
(* The browser capability.  env.live says whether self.browser is a        *)
(* started instance when the dispatch runs (a call on None, on a closed or *)
(* on a not yet started instance raises); env.o is the oracle.             *)
(***************************************************************************)
\* one call on self.browser, appended to the calls made so far
BrowserCall(env, calls, op, arg) ==
    Append(calls, [op |-> op, arg |-> arg,
                   ok |-> env.live /\ env.o[Len(calls) + 1]])

LastOk(calls) == calls[Len(calls)].ok

\* _take_screenshot: the path, or "" when browser.screenshot raised
take_screenshot(env, calls) ==
    LET c == BrowserCall(env, calls, "screenshot", "")
    IN  [path |-> IF LastOk(c) THEN ShotPath ELSE "", calls |-> c]

\* the dict every action handler returns from its except branch
Failure(error) == [success |-> FALSE, error |-> error]

\* the dict every action handler returns on success
Success(data, screenshot) ==
    [success |-> TRUE, data |-> data, screenshot |-> screenshot]

(***************************************************************************)
(* Action handlers: each returns [res |-> result dict, calls |-> calls]    *)
(***************************************************************************)
\* _navigate_to_url
navigate_to_url(url, parameters, env) ==
    LET c1 == BrowserCall(env, <<>>, "goto", url)
        c2 == BrowserCall(env, c1, "title", "")
        s  == take_screenshot(env, c2)
    IN  IF ~LastOk(c1) THEN [res |-> Failure("goto raised"), calls |-> c1]
        ELSE IF ~LastOk(c2) THEN [res |-> Failure("title raised"), calls |-> c2]
        ELSE [res |-> Success([url |-> url, title |-> "title"], s.path),
              calls |-> s.calls]

\* _ai_assisted_click, lines 283-295: the loop over identified_elements
RECURSIVE ai_click_loop(_, _, _, _, _)
ai_click_loop(elements, j, screenshot_path, env, calls) ==
    IF j > Len(elements)
    THEN [res |-> Failure("AI could not find the specified element"),
          calls |-> calls]
    ELSE IF ~elements[j].described \/ elements[j].selector = ""
    THEN ai_click_loop(elements, j + 1, screenshot_path, env, calls)
    ELSE LET c == BrowserCall(env, calls, "click", elements[j].selector)
         IN  IF LastOk(c)
             THEN [res |-> Success([selector |-> elements[j].selector,
                                    ai_assisted |-> TRUE], screenshot_path),
                   calls |-> c]
             ELSE ai_click_loop(elements, j + 1, screenshot_path, env, c)

\* a variant of _ai_assisted_click that clicks the locator it was given once
\* more before it asks the advisor
ai_assisted_click_primary_again(element_description, parameters, env, calls) ==
    LET c == BrowserCall(env, calls, "click", element_description)
        s == take_screenshot(env, c)
    IN  IF LastOk(c)
        THEN [res |-> Success([selector |-> element_description,
                               ai_assisted |-> TRUE], s.path),
              calls |-> s.calls]
        ELSE IF s.path = "" \/ env.ai.raises
        THEN [res |-> Failure("analyze_screenshot raised"), calls |-> s.calls]
        ELSE ai_click_loop(env.ai.elements, 1, s.path, env, s.calls)

\* _ai_assisted_click; analyze_screenshot opens the screenshot file first
\* (ai_service.py lines 93-96) and so raises for the path "" of a failed
\* screenshot, as it does when the advisor call itself fails
ai_assisted_click(element_description, parameters, env, calls) ==
    LET s == take_screenshot(env, calls)
    IN  IF s.path = "" \/ env.ai.raises
        THEN [res |-> Failure("analyze_screenshot raised"), calls |-> s.calls]
        ELSE ai_click_loop(env.ai.elements, 1, s.path, env, s.calls)

\* _click_element, line 137: the candidate list
Selectors(selector, parameters) ==
    <<selector>> \o Get(parameters, "fallback_selectors", <<>>)

\* a variant of the loop of _click_element without the return of line 148:
\* after a click that succeeded the remaining candidates are clicked too
RECURSIVE click_loop_no_return(_, _, _, _, _, _)
click_loop_no_return(selectors, j, selector, parameters, env, calls) ==
    LET c == BrowserCall(env, calls, "click", selectors[j])
        s == take_screenshot(env, c)
    IN  IF j > Len(selectors)
        THEN ai_assisted_click(selector, parameters, env, calls)
        ELSE IF LastOk(c) /\ j = Len(selectors)
        THEN [res |-> Success([selector |-> selectors[j],
                               action |-> "clicked"], s.path),
              calls |-> s.calls]
        ELSE IF LastOk(c)
        THEN [res |-> Success([selector |-> selectors[j],
                               action |-> "clicked"], s.path),
              calls |-> BrowserCall(env, s.calls, "click", selectors[j + 1])]
        ELSE click_loop_no_return(selectors, j + 1, selector, parameters,
                                  env, c)

\* _click_element, lines 139-159: the loop over the candidates, then the
\* AI-assisted search
RECURSIVE click_loop(_, _, _, _, _, _)
click_loop(selectors, j, selector, parameters, env, calls) ==
    IF j > Len(selectors)
    THEN ai_assisted_click(selector, parameters, env, calls)
    ELSE LET c == BrowserCall(env, calls, "click", selectors[j])
         IN  IF LastOk(c)
             THEN LET s == take_screenshot(env, c)
                  IN  [res |-> Success([selector |-> selectors[j],
                                        action |-> "clicked"], s.path),
                       calls |-> s.calls]
             ELSE click_loop(selectors, j + 1, selector, parameters, env, c)

\* _click_element
click_element(selector, parameters, env) ==
    click_loop(Selectors(selector, parameters), 1, selector, parameters,
               env, <<>>)

\* _fill_form with clear_first ignored: the field is always cleared
fill_form_always_clears(selector, parameters, env) ==
    LET value == Get(parameters, "value", "")
        c1 == BrowserCall(env, <<>>, "clear", selector)
        c2 == BrowserCall(env, c1, "type", selector)
        s  == take_screenshot(env, c2)
    IN  IF ~LastOk(c1)
        THEN [res |-> Failure("clear raised"), calls |-> c1]
        ELSE IF ~LastOk(c2)
        THEN [res |-> Failure("type raised"), calls |-> c2]
        ELSE [res |-> Success([selector |-> selector, value |-> value], s.path),
              calls |-> s.calls]

\* _fill_form
fill_form(selector, parameters, env) ==
    LET value == Get(parameters, "value", "")
        clear_first == Get(parameters, "clear_first", TRUE)
        c1 == IF clear_first THEN BrowserCall(env, <<>>, "clear", selector)
              ELSE <<>>
        c2 == BrowserCall(env, c1, "type", selector)
        s  == take_screenshot(env, c2)
    IN  IF clear_first /\ ~LastOk(c1)
        THEN [res |-> Failure("clear raised"), calls |-> c1]
        ELSE IF ~LastOk(c2)
        THEN [res |-> Failure("type raised"), calls |-> c2]
        ELSE [res |-> Success([selector |-> selector, value |-> value], s.path),
              calls |-> s.calls]

\* _extract_data
extract_data(selector, parameters, env) ==
    LET extraction_type == Get(parameters, "type", "text")
        op == IF extraction_type = "attribute" THEN "attribute"
              ELSE IF extraction_type = "multiple" THEN "text_all"
              ELSE "text"
        c1 == BrowserCall(env, <<>>, op, selector)
        s  == take_screenshot(env, c1)
    IN  IF ~LastOk(c1) THEN [res |-> Failure("extract raised"), calls |-> c1]
        ELSE [res |-> Success([selector |-> selector,
                               extracted_data |-> "data"], s.path),
              calls |-> s.calls]

\* _wait_action
wait_action(condition, parameters, env) ==
    LET wait_type == Get(parameters, "type", "time")
        c1 == IF wait_type = "element"
              THEN BrowserCall(env, <<>>, "wait_for_element", condition)
              ELSE IF wait_type = "text"
              THEN BrowserCall(env, <<>>, "wait_for_text", condition)
              ELSE <<>>
        s  == take_screenshot(env, c1)
    IN  IF c1 # <<>> /\ ~LastOk(c1)
        THEN [res |-> Failure("wait raised"), calls |-> c1]
        ELSE [res |-> Success([condition |-> condition,
                               wait_type |-> wait_type], s.path),
              calls |-> s.calls]

\* one call on self.browser that answers a value: the call record keeps
\* the answer env.val
AnsweringCall(env, calls, op, arg) ==
    Append(calls, [op |-> op, arg |-> arg,
                   ok |-> env.live /\ env.o[Len(calls) + 1],
                   val |-> env.val])

\* the browser call that evaluates a condition of the given type, none for
\* a type the code does not know (line 255)
ConditionCall(condition_type, condition, parameters, env) ==
    IF condition_type = "element_exists"
    THEN AnsweringCall(env, <<>>, "exists", condition)
    ELSE IF condition_type = "text_contains"
    THEN AnsweringCall(env, <<>>, "text", condition)
    ELSE IF condition_type = "custom"
    THEN AnsweringCall(env, <<>>, "evaluate",
                       Get(parameters, "javascript", ""))
    ELSE <<>>

\* a variant of _execute_conditional that reports a condition that
\* evaluated to false as a failure of the step
execute_conditional_false_fails(condition, parameters, context, env) ==
    LET c1 == ConditionCall(Get(parameters, "type", "element_exists"),
                            condition, parameters, env)
        result == IF c1 = <<>> THEN FALSE ELSE env.val
        s  == take_screenshot(env, c1)
    IN  IF c1 # <<>> /\ ~LastOk(c1)
        THEN [res |-> Failure("condition raised"), calls |-> c1]
        ELSE IF ~result
        THEN [res |-> Failure("condition false"), calls |-> c1]
        ELSE [res |-> Success([condition |-> condition, result |-> result],
                              s.path),
              calls |-> s.calls]

\* _execute_conditional; env.val is the boolean the browser answers (for
\* text_contains: whether the text it answers contains search_text)
execute_conditional(condition, parameters, context, env) ==
    LET c1 == ConditionCall(Get(parameters, "type", "element_exists"),
                            condition, parameters, env)
        result == IF c1 = <<>> THEN FALSE ELSE env.val
        s  == take_screenshot(env, c1)
    IN  IF c1 # <<>> /\ ~LastOk(c1)
        THEN [res |-> Failure("condition raised"), calls |-> c1]
        ELSE [res |-> Success([condition |-> condition, result |-> result],
                              s.path),
              calls |-> s.calls]

(***************************************************************************)
(* The Action Dispatcher                                                   *)
(***************************************************************************)
\* execute_workflow_step, lines 58-66: the result dict before dispatch
InitialResult(step) ==
    [step_number |-> step.step_number, action_type |-> step.action_type,
     success |-> FALSE, data |-> None, screenshot |-> None, error |-> None,
     duration |-> 0]

\* execute_workflow_step, lines 70-89: the dispatch on action_type
Handler(step, context, env) ==
    LET action_type == step.action_type
        target == step.target
        parameters == step.parameters
    IN  CASE action_type = "navigate" -> navigate_to_url(target, parameters, env)
          [] action_type = "click" -> click_element(target, parameters, env)
          [] action_type = "fill" -> fill_form(target, parameters, env)
          [] action_type = "extract" -> extract_data(target, parameters, env)
          [] action_type = "wait" -> wait_action(target, parameters, env)
          [] action_type = "conditional" ->
                execute_conditional(target, parameters, context, env)
          [] OTHER ->
                [res |-> SetKey(InitialResult(step), "error",
                                "Unknown action type"),
                 calls |-> <<>>]

\* a variant of lines 91-98 without the test of line 95: the screenshot is
\* taken and stored for a failed result too
TimedAlwaysScreenshot(h, env) ==
    [res |-> SetKey(SetKey(h.res, "duration", Duration), "screenshot",
                    take_screenshot(env, h.calls).path),
     calls |-> take_screenshot(env, h.calls).calls]

\* execute_workflow_step, lines 91-98: h is what the handler returned; the
\* duration is set and a successful result gets a fresh screenshot
Timed(h, env) ==
    IF h.res.success
    THEN [res |-> SetKey(SetKey(h.res, "duration", Duration), "screenshot",
                         take_screenshot(env, h.calls).path),
          calls |-> take_screenshot(env, h.calls).calls]
    ELSE [res |-> SetKey(h.res, "duration", Duration), calls |-> h.calls]

\* execute_workflow_step: dispatch, duration, the screenshot of a success.
\* The handlers catch every exception themselves, so the except branch of
\* lines 100-108 is not reached for a step that is a dict.
execute_workflow_step(step, context, env) ==
    Timed(Handler(step, context, env), env)

(***************************************************************************)
(* The Recovery Coordinator.  Events are what a run did, in order:         *)
(*   [kind |-> "advisor", ...]   one generate_error_recovery_strategy call *)
(*   [kind |-> "dispatch", ...]  one execute_workflow_step call            *)
(* pos (the position of the step in the list) and inst (the browser        *)
(* instance self.browser named) are filled in by the run.  A dispatch      *)
(* event keeps the calls that act on the page, without the screenshots;     *)
(* shot says whether the screenshot call of line 96 was made and succeeded, *)
(* shots how many screenshot calls the dispatch made.                       *)
(***************************************************************************)
RECURSIVE ActionCalls(_)
ActionCalls(calls) ==
    IF calls = <<>> THEN <<>>
    ELSE (IF calls[1].op = "screenshot" THEN <<>> ELSE <<calls[1]>>)
         \o ActionCalls(Tail(calls))

AdvisorEvent(answer) ==
    [kind |-> "advisor", pos |-> 0, answer |-> answer]

DispatchEvent(phase, step, d) ==
    [kind |-> "dispatch", pos |-> 0, inst |-> 0, phase |-> phase,
     step |-> step, calls |-> ActionCalls(d.calls), res |-> d.res,
     shot |-> d.res.success /\ LastOk(d.calls),
     shots |-> Len(d.calls) - Len(ActionCalls(d.calls))]

\* the recovery_strategy dict of an advisor answer; "missing" is a dict
\* without recommended_action
Strategy(answer) ==
    IF answer = "missing" THEN EmptyDict ELSE [recommended_action |-> answer]

\* _handle_step_failure, lines 400-404
RecoveryFailed(error_description) ==
    [success |-> FALSE, error |-> "Recovery failed", recovery_attempted |-> TRUE]

\* what a recovery pass that re-dispatched step hands back: d is what
\* execute_workflow_step returned
Redispatched(phase, step, d) ==
    [res |-> d.res, events |-> <<DispatchEvent(phase, step, d)>>,
     step |-> step]

\* what a recovery pass that re-dispatched nothing hands back
NotRedispatched(step, res) == [res |-> res, events |-> <<>>, step |-> step]

\* a variant of immediate_retry that hands a retry that failed to the
\* recovery pass again: the advisor is consulted and the step dispatched
\* a second time
RetriedAgain(rec, answer) ==
    IF rec.res.success THEN rec
    ELSE [res |-> rec.res,
          events |-> rec.events \o <<AdvisorEvent(answer)>> \o rec.events,
          step |-> rec.step]

immediate_retry_recursive(step, context, env) ==
    RetriedAgain(
        Redispatched("retry", step, execute_workflow_step(step, context, env)),
        env.adv)

\* _handle_step_failure, lines 384-387: immediate_retry
immediate_retry(step, context, env) ==
    Redispatched("retry", step, execute_workflow_step(step, context, env))

\* _handle_step_failure, line 394: step["target"] = selector changes the
\* caller's step dict
Retargeted(step, selector) == [step EXCEPT !.target = selector]

\* _handle_step_failure, lines 389-397: alternative_approach.  The return
\* inside the loop leaves it at the first fallback selector, whatever the
\* re-dispatch returned.
alternative_approach(step, step_result, context, env) ==
    IF Get(step.parameters, "fallback_selectors", <<>>) = <<>>
    THEN NotRedispatched(step, RecoveryFailed(step_result.error))
    ELSE Redispatched("alternative",
            Retargeted(step, step.parameters.fallback_selectors[1]),
            execute_workflow_step(
                Retargeted(step, step.parameters.fallback_selectors[1]),
                context, env))

\* a variant of lines 381-404 that retries the step on a recommendation it
\* does not know
RecommendedRetriesUnknown(recommended_action, step, step_result, context, env) ==
    IF recommended_action = "alternative_approach"
    THEN alternative_approach(step, step_result, context, env)
    ELSE IF recommended_action = "manual_intervention"
    THEN NotRedispatched(step, RecoveryFailed(step_result.error))
    ELSE immediate_retry(step, context, env)

\* _handle_step_failure, lines 381-404: the recommended action is tried
Recommended(recommended_action, step, step_result, context, env) ==
    IF recommended_action = "immediate_retry"
    THEN immediate_retry(step, context, env)
    ELSE IF recommended_action = "alternative_approach"
    THEN alternative_approach(step, step_result, context, env)
    ELSE NotRedispatched(step, RecoveryFailed(step_result.error))

\* the advisor was consulted, then rec happened
Consulted(answer, rec) ==
    [res |-> rec.res, events |-> <<AdvisorEvent(answer)>> \o rec.events,
     step |-> rec.step]

\* a variant of _handle_step_failure whose except branch dispatches the
\* step once more when the advisor call raised
handle_step_failure_retry_on_raise(step, step_result, context, env) ==
    IF env.adv = "raises"
    THEN Consulted(env.adv, immediate_retry(step, context, env))
    ELSE Consulted(env.adv,
            Recommended(Get(Strategy(env.adv), "recommended_action",
                            "manual_intervention"),
                        step, step_result, context, env))

\* _handle_step_failure; env.adv is the advisor's answer ("raises" when
\* generate_error_recovery_strategy raised, lines 406-408)
handle_step_failure(step, step_result, context, env) ==
    IF env.adv = "raises"
    THEN Consulted(env.adv, NotRedispatched(step, Failure("advisor raised")))
    ELSE Consulted(env.adv,
            Recommended(Get(Strategy(env.adv), "recommended_action",
                            "manual_intervention"),
                        step, step_result, context, env))

(***************************************************************************)
(* The Workflow Runner: execute_workflow                                   *)
(***************************************************************************)
RECURSIVE CountSuccess(_)
CountSuccess(results) ==
    IF results = <<>> THEN 0
    ELSE (IF results[1].success THEN 1 ELSE 0) + CountSuccess(Tail(results))

RECURSIVE Screenshots(_)
Screenshots(results) ==
    IF results = <<>> THEN <<>>
    ELSE (IF Truthy(results[1].screenshot) THEN <<results[1].screenshot>>
          ELSE <<>>) \o Screenshots(Tail(results))

\* a variant of the except branch that counts the (empty) step_results
\* instead of the submitted steps
ExceptionReportOfResults(workflow_steps, error) ==
    [workflow_success |-> FALSE, error |-> error, steps_completed |-> 0,
     total_steps |-> 0, step_results |-> <<>>]

\* execute_workflow, lines 358-366: the report of the except branch
ExceptionReport(workflow_steps, error) ==
    [workflow_success |-> FALSE, error |-> error, steps_completed |-> 0,
     total_steps |-> Len(workflow_steps), step_results |-> <<>>]

\* execute_workflow, lines 345-356: the report after the loop
NormalReport(results, context) ==
    [workflow_success |-> CountSuccess(results) = Len(results),
     steps_completed |-> CountSuccess(results),
     total_steps |-> Len(results),
     step_results |-> results,
     context |-> context,
     screenshots |-> Screenshots(results)]

\* execute_workflow, lines 345-366: r["screenshot"] raises KeyError for a
\* result dict without that key, and the except branch answers
Report(workflow_steps, results, context) ==
    IF \E i \in 1..Len(results) : "screenshot" \notin DOMAIN results[i]
    THEN ExceptionReport(workflow_steps, "'screenshot'")
    ELSE NormalReport(results, context)

\* step_number is 1, 2, 3, ... along the list
Contiguous(workflow_steps) ==
    \A i \in 1..Len(workflow_steps) : workflow_steps[i].step_number = i

\* a variant of the loop that runs no step of a list whose numbering is
\* not contiguous
ValidatedSteps(workflow_steps) ==
    IF Contiguous(workflow_steps) THEN workflow_steps ELSE <<>>

\* a variant of the loop that runs over the list from its end
ReversedSteps(workflow_steps) ==
    [i \in 1..Len(workflow_steps) |->
        workflow_steps[Len(workflow_steps) + 1 - i]]

\* a variant of the loop that goes on after every recovery pass
ContinuesAlways(recovery_result) == TRUE

\* a variant of lines 338-343 that dispatches the step again when its
\* recovery pass failed
AfterRecoveryRetries(goes_on, last) ==
    IF ~goes_on THEN "run" ELSE IF last THEN "persist" ELSE "run"

\* execute_workflow, lines 338-343: where the run is after a recovery pass:
\* in the loop ("run") when the pass succeeded and a step is left, else at
\* the report ("persist")
AfterRecovery(goes_on, last) ==
    IF goes_on /\ ~last THEN "run" ELSE "persist"

\* a variant of lines 338-343 that goes on whenever the recovery pass
\* dispatched the step again, whatever the re-dispatch returned
ContinuesAfterRedispatch(recovery_result) ==
    "duration" \in DOMAIN recovery_result

\* a variant of the loop that leaves out the last step of the list
AllButLastStep(workflow_steps) ==
    SubSeq(workflow_steps, 1, Len(workflow_steps) - 1)

\* execute_workflow, line 326: the steps the loop runs over
LoopSteps(workflow_steps) == workflow_steps

\* execute_workflow, lines 338-343: the loop goes on after a recovery pass
\* only when the recovery result is a success
ContinuesAfterRecovery(recovery_result) == recovery_result.success

(***************************************************************************)
(* Inputs: the stored workflows                                            *)
(***************************************************************************)
\* a step dict as the interpreter stores it (description and the advisory
\* texts carry no behaviour and are left out)
Step(action_type, target, parameters) ==
    [step_number |-> 0, action_type |-> action_type, target |-> target,
     parameters |-> parameters]

\* the steps workflows are built from
Pool ==
    << Step("navigate", Url, EmptyDict),
       Step("click", "#a", [fallback_selectors |-> <<"#b">>]),
       Step("hover", "#a", [fallback_selectors |-> <<"#b">>]) >>

\* the steps the workflows of the execute requests are built from
ReqPool ==
    << Step("extract", "#a", EmptyDict) >>

\* the steps the workflows with alternatives are built from: a fill whose
\* parameters list two fallback selectors, and a navigate
AltPool ==
    << Step("fill", "#a", [fallback_selectors |-> <<"#b", "#c">>]),
       Step("navigate", Url, EmptyDict) >>

\* the steps the workflows of conditions are built from: one conditional
\* step of each condition type
CondPool ==
    << Step("conditional", "#a", [type |-> "element_exists"]),
       Step("conditional", "#a", [type |-> "text_contains",
                                  search_text |-> "text"]),
       Step("conditional", "#a", [type |-> "custom",
                                  javascript |-> "script"]) >>

\* the steps the workflows of fills are built from: clear_first absent, true
\* and false
FillPool ==
    << Step("fill", "#a", [value |-> "text"]),
       Step("fill", "#a", [value |-> "text", clear_first |-> TRUE]),
       Step("fill", "#a", [value |-> "text", clear_first |-> FALSE]) >>

\* step_number of the i-th of n steps: 1,2,3,... ("contiguous") or the same
\* with the last number one too high ("gapped": [1,2,4])
StepNumber(numbering, i, n) ==
    IF numbering = "gapped" /\ i = n THEN i + 1 ELSE i

Numberings == {"contiguous", "gapped"}

\* the step list that takes the steps ix[1], ix[2], ... of pool
Workflow(pool, ix, numbering) ==
    [i \in 1..Len(ix) |->
        [pool[ix[i]] EXCEPT !.step_number = StepNumber(numbering, i, Len(ix))]]

(***************************************************************************)
(* The environment of one dispatch: what the browser and the advisors      *)
(* answer                                                                  *)
(***************************************************************************)
\* entries of identified_elements: described says whether the element's
\* description contains the text searched for; selector "" is a missing one
AiElements ==
    { [described |-> TRUE, selector |-> "#a"],
      [described |-> TRUE, selector |-> "#b"],
      [described |-> TRUE, selector |-> ""],
      [described |-> FALSE, selector |-> "#b"] }

NoAi == [raises |-> TRUE, elements |-> <<>>]

\* what analyze_screenshot answers: it raises, or a list of elements
AiAnswers(max) ==
    {NoAi} \cup
    { [raises |-> FALSE, elements |-> e] :
        e \in UNION { [1..k -> AiElements] : k \in 0..max } }

\* what generate_error_recovery_strategy answers
AdvisorAnswers ==
    { "raises", "immediate_retry", "alternative_approach",
      "manual_intervention", "missing", "retry_with_delay" }

\* what analyze_screenshot answers inside a run: it raises, or it finds no
\* element (the proposals are the subject of the click specification)
RunAiAnswers == { NoAi, [raises |-> FALSE, elements |-> <<>>] }

\* the longest identified_elements list among the answers
MaxElements(aiAnswers) ==
    CHOOSE n \in {Len(a.elements) : a \in aiAnswers} :
        \A a \in aiAnswers : Len(a.elements) <= n

\* the most browser calls one dispatch of step makes
MaxCalls(step, aiAnswers) ==
    IF step.action_type = "click"
    THEN Len(Selectors(step.target, step.parameters))
         + MaxElements(aiAnswers) + 2
    ELSE IF step.action_type \in {"navigate", "fill"} THEN 4
    ELSE IF step.action_type \in {"extract", "wait", "conditional"} THEN 3
    ELSE 0

Envs(step, live, aiAnswers, advisor) ==
    { [live |-> live, o |-> o, val |-> v, ai |-> a, adv |-> adv] :
        o \in IF live THEN [1..MaxCalls(step, aiAnswers) -> BOOLEAN]
              ELSE {[i \in 1..MaxCalls(step, aiAnswers) |-> FALSE]},
        v \in IF step.action_type = "conditional" THEN BOOLEAN ELSE {FALSE},
        a \in IF step.action_type = "click" THEN aiAnswers ELSE {NoAi},
        adv \in advisor }

(***************************************************************************)
(* State                                                                   *)
(***************************************************************************)
Reqs == {1, 2}

VARIABLES
    pc,         \* per request: where the execute endpoint is
    steps,      \* per request: workflow.ai_interpreted_steps as loaded
    idx,        \* per request: position of the loop of execute_workflow
    results,    \* per request: results of execute_workflow
    context,    \* per request: context of execute_workflow
    report,     \* per request: what execute_workflow returned
    hist,       \* per request: the events of the run, in order
    response,   \* per request: the HTTP answer
    mine,       \* per request: the BrowserUse object its initialize_browser made
    target,     \* per request: the object its close_browser is closing
    browser,    \* browser_service.browser (0 is None)
    instances,  \* every BrowserUse object made: [owner, state]
    executions, \* the rows of the executions table
    clickIn,    \* the input of one _click_element call
    clickOut,   \* what that call did
    runner      \* one execute_workflow call of the standalone app.py

vars == <<pc, steps, idx, results, context, report, hist, response, mine,
          target, browser, instances, executions, clickIn, clickOut,
          runner>>

runVars == <<steps, idx, results, context, report, hist>>
clickVars == <<clickIn, clickOut>>

NoReport == [none |-> TRUE]
HasReport(r) == "total_steps" \in DOMAIN report[r]
NoClick == [done |-> FALSE]
NoRunner == [pc |-> "off"]

\* self.browser names a started BrowserUse object
Live == browser # 0 /\ instances[browser].state = "started"

InitCommon ==
    /\ idx = [r \in Reqs |-> 1]
    /\ results = [r \in Reqs |-> <<>>]
    /\ context = [r \in Reqs |-> <<>>]
    /\ report = [r \in Reqs |-> NoReport]
    /\ hist = [r \in Reqs |-> <<>>]
    /\ response = [r \in Reqs |-> "none"]
    /\ mine = [r \in Reqs |-> 0]
    /\ target = [r \in Reqs |-> 0]
    /\ browser = 0
    /\ instances = <<>>
    /\ executions = <<>>

\* one execute_workflow call on a started browser
Init ==
    /\ idx = [r \in Reqs |-> 1]
    /\ results = [r \in Reqs |-> <<>>]
    /\ context = [r \in Reqs |-> <<>>]
    /\ report = [r \in Reqs |-> NoReport]
    /\ hist = [r \in Reqs |-> <<>>]
    /\ response = [r \in Reqs |-> "none"]
    /\ mine = [r \in Reqs |-> IF r = 1 THEN 1 ELSE 0]
    /\ target = [r \in Reqs |-> 0]
    /\ browser = 1
    /\ instances = <<[owner |-> 1, state |-> "started"]>>
    /\ executions = <<>>
    /\ pc = [r \in Reqs |-> IF r = 1 THEN "run" ELSE "off"]
    /\ \E n \in 0..MaxSteps : \E ix \in [1..n -> 1..Len(Pool)] :
       \E numbering \in Numberings :
          steps = [r \in Reqs |-> IF r = 1 THEN Workflow(Pool, ix, numbering)
                                  ELSE <<>>]
    /\ clickIn = NoClick
    /\ clickOut = NoClick
    /\ runner = NoRunner

(***************************************************************************)
(* The execute endpoint, api/workflows.py execute_workflow                 *)
(***************************************************************************)
\* lines 238-242: no interpreted steps, HTTP 400
Reject(r) ==
    /\ pc[r] = "start"
    /\ steps[r] = <<>>
    /\ pc' = [pc EXCEPT ![r] = "done"]
    /\ response' = [response EXCEPT ![r] = "400"]
    /\ UNCHANGED <<runVars, mine, target, browser, instances, executions,
                   clickVars, runner>>

\* lines 245-248 and initialize_browser lines 26-33: the BrowserUse object
\* is made and assigned to self.browser, then start() is awaited; when the
\* constructor raises, the request ends with HTTP 500
InitializeBrowser(r) ==
    /\ pc[r] = "start"
    /\ steps[r] # <<>>
    /\ \E made \in BOOLEAN :
        IF made
        THEN /\ instances' = Append(instances, [owner |-> r, state |-> "starting"])
             /\ browser' = Len(instances) + 1
             /\ mine' = [mine EXCEPT ![r] = Len(instances) + 1]
             /\ pc' = [pc EXCEPT ![r] = "starting"]
             /\ UNCHANGED response
        ELSE /\ pc' = [pc EXCEPT ![r] = "done"]
             /\ response' = [response EXCEPT ![r] = "500"]
             /\ UNCHANGED <<instances, browser, mine>>
    /\ UNCHANGED <<runVars, target, executions, clickVars, runner>>

\* a variant of initialize_browser that logs a failure of start() without
\* raising it again: the endpoint goes on to execute_workflow
BrowserStartedSwallows(r) ==
    /\ pc[r] = "starting"
    /\ \E ok \in BOOLEAN :
          instances' = [instances EXCEPT
                          ![mine[r]].state = IF ok THEN "started" ELSE "failed"]
    /\ pc' = [pc EXCEPT ![r] = "run"]
    /\ UNCHANGED <<runVars, response, mine, target, browser, executions,
                   clickVars, runner>>

\* initialize_browser lines 33-38: start() returns, or raises and the
\* exception leaves the endpoint through its except branch (lines 284-289)
BrowserStarted(r) ==
    /\ pc[r] = "starting"
    /\ \E ok \in BOOLEAN :
        IF ok
        THEN /\ instances' = [instances EXCEPT ![mine[r]].state = "started"]
             /\ pc' = [pc EXCEPT ![r] = "run"]
             /\ UNCHANGED response
        ELSE /\ instances' = [instances EXCEPT ![mine[r]].state = "failed"]
             /\ pc' = [pc EXCEPT ![r] = "done"]
             /\ response' = [response EXCEPT ![r] = "500"]
    /\ UNCHANGED <<runVars, mine, target, browser, executions, clickVars, runner>>

(***************************************************************************)
(* execute_workflow, one action per stretch between two awaits of the loop *)
(***************************************************************************)
\* a variant of line 324 with one mapping made once and used by every call
\* (a mutable default argument)
ContextOfShared(r) == 1

\* execute_workflow, line 324: context = context or {}.  The endpoint passes
\* no context, so every call makes a dict of its own; the dicts are
\* numbered by the call that made them, and context[m] is the content of
\* dict m
ContextOf(r) == r

\* the events of one stretch, stamped with the step's position and with the
\* object self.browser named
Tag(events, pos, inst) ==
    [i \in 1..Len(events) |->
        IF events[i].kind = "dispatch"
        THEN [events[i] EXCEPT !.pos = pos, !.inst = inst]
        ELSE [events[i] EXCEPT !.pos = pos]]

\* a variant of lines 328-333 without the test of line 331: the data of
\* every result is recorded in the context, failed or not
DispatchedAlwaysRecords(r, step, d) ==
    LET results2 == Append(results[r], d.res)
        context2 == SetKey(context[ContextOf(r)], step.step_number,
                           Get(d.res, "data", None))
        last == idx[r] = Len(LoopSteps(steps[r]))
    IN  /\ results' = [results EXCEPT ![r] = results2]
        /\ context' = [context EXCEPT ![ContextOf(r)] = context2]
        /\ hist' = [hist EXCEPT ![r] = @ \o
              Tag(<<DispatchEvent("first", step, d)>>, idx[r], browser)]
        /\ idx' = [idx EXCEPT ![r] = IF d.res.success THEN @ + 1 ELSE @]
        /\ pc' = [pc EXCEPT ![r] =
                    IF ~d.res.success THEN "recover"
                    ELSE IF last THEN "persist" ELSE "run"]
        /\ report' = [report EXCEPT ![r] =
                    IF d.res.success /\ last
                    THEN Report(steps[r], results2, context2)
                    ELSE @]
        /\ UNCHANGED steps

\* lines 328-333 and 345-366: d is what execute_workflow_step returned for
\* the step at the loop's position; the result is appended and, on success,
\* its data recorded in the context; after the last step the report is built
Dispatched(r, step, d) ==
    LET results2 == Append(results[r], d.res)
        context2 == IF d.res.success
                    THEN SetKey(context[ContextOf(r)], step.step_number, d.res.data)
                    ELSE context[ContextOf(r)]
        last == idx[r] = Len(LoopSteps(steps[r]))
    IN  /\ results' = [results EXCEPT ![r] = results2]
        /\ context' = [context EXCEPT ![ContextOf(r)] = context2]
        /\ hist' = [hist EXCEPT ![r] = @ \o
              Tag(<<DispatchEvent("first", step, d)>>, idx[r], browser)]
        /\ idx' = [idx EXCEPT ![r] = IF d.res.success THEN @ + 1 ELSE @]
        /\ pc' = [pc EXCEPT ![r] =
                    IF ~d.res.success THEN "recover"
                    ELSE IF last THEN "persist" ELSE "run"]
        /\ report' = [report EXCEPT ![r] =
                    IF d.res.success /\ last
                    THEN Report(steps[r], results2, context2)
                    ELSE @]
        /\ UNCHANGED steps

\* lines 326-333: the loop takes the next step and dispatches it; when no
\* step is left the report is built (lines 345-366)
Dispatch(r) ==
    /\ pc[r] = "run"
    /\ IF idx[r] > Len(LoopSteps(steps[r]))
       THEN /\ report' = [report EXCEPT
                            ![r] = Report(steps[r], results[r], context[ContextOf(r)])]
            /\ pc' = [pc EXCEPT ![r] = "persist"]
            /\ UNCHANGED <<steps, idx, results, context, hist>>
       ELSE \E env \in Envs(LoopSteps(steps[r])[idx[r]], Live, RunAiAnswers,
                            {"none"}) :
                Dispatched(r, LoopSteps(steps[r])[idx[r]],
                    execute_workflow_step(LoopSteps(steps[r])[idx[r]],
                                          context[ContextOf(r)], env))
    /\ UNCHANGED <<response, mine, target, browser, instances, executions,
                   clickVars, runner>>

\* lines 338-343 and 345-366: rec is what _handle_step_failure returned; a
\* success replaces the last result and the loop goes on, a failure breaks
\* the loop and the report is built
Recovered(r, rec) ==
    LET goes_on == ContinuesAfterRecovery(rec.res)
        results2 == IF goes_on
                    THEN [results[r] EXCEPT ![Len(results[r])] = rec.res]
                    ELSE results[r]
        steps2 == [steps[r] EXCEPT ![idx[r]] = rec.step]
        last == idx[r] = Len(LoopSteps(steps[r]))
    IN  /\ steps' = [steps EXCEPT ![r] = steps2]
        /\ results' = [results EXCEPT ![r] = results2]
        /\ hist' = [hist EXCEPT ![r] = @ \o Tag(rec.events, idx[r], browser)]
        /\ idx' = [idx EXCEPT ![r] = IF goes_on THEN @ + 1 ELSE @]
        /\ pc' = [pc EXCEPT ![r] = AfterRecovery(goes_on, last)]
        /\ report' = [report EXCEPT ![r] =
                    IF AfterRecovery(goes_on, last) = "run" THEN @
                    ELSE Report(steps2, results2, context[ContextOf(r)])]
        /\ UNCHANGED context

\* lines 335-337: the recovery pass on the failed result
Recover(r) ==
    /\ pc[r] = "recover"
    /\ \E env \in Envs(steps[r][idx[r]], Live, RunAiAnswers, AdvisorAnswers) :
        Recovered(r, handle_step_failure(steps[r][idx[r]],
                        results[r][Len(results[r])], context[ContextOf(r)], env))
    /\ UNCHANGED <<response, mine, target, browser, instances, executions,
                   clickVars, runner>>

(***************************************************************************)
(* The execute endpoint after the run                                      *)
(***************************************************************************)
\* a variant of lines 258-266 that stores the status "completed" whatever
\* the report says
ExecutionAlwaysCompleted(r, result) ==
    [workflow_id |-> r,
     status |-> "completed",
     steps_completed |-> result.steps_completed,
     total_steps |-> result.total_steps]

\* api/workflows.py lines 258-266: the Execution row built from the report
Execution(r, result) ==
    [workflow_id |-> r,
     status |-> IF result.workflow_success THEN "completed" ELSE "failed",
     steps_completed |-> result.steps_completed,
     total_steps |-> result.total_steps]

\* lines 256-277: the row is added and committed and the answer prepared,
\* or the commit raises; both ways the finally clause comes next
Persist(r) ==
    /\ pc[r] = "persist"
    /\ \E committed \in BOOLEAN :
        IF committed
        THEN /\ executions' = Append(executions, Execution(r, report[r]))
             /\ response' = [response EXCEPT ![r] = "200"]
        ELSE /\ response' = [response EXCEPT ![r] = "500"]
             /\ UNCHANGED executions
    /\ pc' = [pc EXCEPT ![r] = "close"]
    /\ UNCHANGED <<runVars, mine, target, browser, instances, clickVars, runner>>

\* lines 279-280 and close_browser lines 44-45: nothing to do when
\* self.browser is None, else close() of the object self.browser names is
\* awaited
CloseBrowser(r) ==
    /\ pc[r] = "close"
    /\ IF browser = 0
       THEN /\ pc' = [pc EXCEPT ![r] = "done"]
            /\ UNCHANGED target
       ELSE /\ pc' = [pc EXCEPT ![r] = "closing"]
            /\ target' = [target EXCEPT ![r] = browser]
    /\ UNCHANGED <<runVars, response, mine, browser, instances, executions,
                   clickVars, runner>>

\* close_browser lines 45-47: close() returns and self.browser is set to
\* None, or close() raises and the request ends with HTTP 500
BrowserClosed(r) ==
    /\ pc[r] = "closing"
    /\ \E ok \in BOOLEAN :
        IF ok
        THEN /\ instances' = [instances EXCEPT ![target[r]].state = "closed"]
             /\ browser' = 0
             /\ UNCHANGED response
        ELSE /\ instances' = [instances EXCEPT
                                ![target[r]].state = "close_failed"]
             /\ response' = [response EXCEPT ![r] = "500"]
             /\ UNCHANGED browser
    /\ pc' = [pc EXCEPT ![r] = "done"]
    /\ UNCHANGED <<runVars, mine, target, executions, clickVars, runner>>

\* execute_workflow alone
Next == \E r \in Reqs : Dispatch(r) \/ Recover(r)

Spec == Init /\ [][Next]_vars

\* one execute_workflow call on a started browser, for a list of steps
\* that have fallback selectors in their parameters
InitAlt ==
    /\ idx = [r \in Reqs |-> 1]
    /\ results = [r \in Reqs |-> <<>>]
    /\ context = [r \in Reqs |-> <<>>]
    /\ report = [r \in Reqs |-> NoReport]
    /\ hist = [r \in Reqs |-> <<>>]
    /\ response = [r \in Reqs |-> "none"]
    /\ mine = [r \in Reqs |-> IF r = 1 THEN 1 ELSE 0]
    /\ target = [r \in Reqs |-> 0]
    /\ browser = 1
    /\ instances = <<[owner |-> 1, state |-> "started"]>>
    /\ executions = <<>>
    /\ pc = [r \in Reqs |-> IF r = 1 THEN "run" ELSE "off"]
    /\ \E n \in 0..MaxSteps : \E ix \in [1..n -> 1..Len(AltPool)] :
          steps = [r \in Reqs |-> IF r = 1 THEN Workflow(AltPool, ix, "contiguous")
                                  ELSE <<>>]
    /\ clickIn = NoClick
    /\ clickOut = NoClick
    /\ runner = NoRunner

SpecAlt == InitAlt /\ [][Next]_vars

\* one execute_workflow call on a started browser, for a list of
\* conditional steps
InitCond ==
    /\ idx = [r \in Reqs |-> 1]
    /\ results = [r \in Reqs |-> <<>>]
    /\ context = [r \in Reqs |-> <<>>]
    /\ report = [r \in Reqs |-> NoReport]
    /\ hist = [r \in Reqs |-> <<>>]
    /\ response = [r \in Reqs |-> "none"]
    /\ mine = [r \in Reqs |-> IF r = 1 THEN 1 ELSE 0]
    /\ target = [r \in Reqs |-> 0]
    /\ browser = 1
    /\ instances = <<[owner |-> 1, state |-> "started"]>>
    /\ executions = <<>>
    /\ pc = [r \in Reqs |-> IF r = 1 THEN "run" ELSE "off"]
    /\ \E n \in 0..MaxSteps : \E ix \in [1..n -> 1..Len(CondPool)] :
          steps = [r \in Reqs |-> IF r = 1
                                  THEN Workflow(CondPool, ix, "contiguous")
                                  ELSE <<>>]
    /\ clickIn = NoClick
    /\ clickOut = NoClick
    /\ runner = NoRunner

SpecCond == InitCond /\ [][Next]_vars

\* two execute_workflow calls on a started browser, their coroutines
\* interleaving at the awaits (one may return before the other starts)
InitCtx ==
    /\ idx = [r \in Reqs |-> 1]
    /\ results = [r \in Reqs |-> <<>>]
    /\ context = [r \in Reqs |-> <<>>]
    /\ report = [r \in Reqs |-> NoReport]
    /\ hist = [r \in Reqs |-> <<>>]
    /\ response = [r \in Reqs |-> "none"]
    /\ mine = [r \in Reqs |-> IF r = 1 THEN 1 ELSE 0]
    /\ target = [r \in Reqs |-> 0]
    /\ browser = 1
    /\ instances = <<[owner |-> 1, state |-> "started"]>>
    /\ executions = <<>>
    /\ pc = [r \in Reqs |-> "run"]
    /\ \E n1 \in 0..MaxSteps, n2 \in 0..MaxSteps :
       \E ix1 \in [1..n1 -> 1..Len(ReqPool)], ix2 \in [1..n2 -> 1..Len(ReqPool)] :
          steps = [r \in Reqs |-> IF r = 1 THEN Workflow(ReqPool, ix1, "contiguous")
                                  ELSE Workflow(ReqPool, ix2, "contiguous")]
    /\ clickIn = NoClick
    /\ clickOut = NoClick
    /\ runner = NoRunner

SpecCtx == InitCtx /\ [][Next]_vars

\* one execute_workflow call on a started browser, on a workflow of fills
InitFill ==
    /\ idx = [r \in Reqs |-> 1]
    /\ results = [r \in Reqs |-> <<>>]
    /\ context = [r \in Reqs |-> <<>>]
    /\ report = [r \in Reqs |-> NoReport]
    /\ hist = [r \in Reqs |-> <<>>]
    /\ response = [r \in Reqs |-> "none"]
    /\ mine = [r \in Reqs |-> IF r = 1 THEN 1 ELSE 0]
    /\ target = [r \in Reqs |-> 0]
    /\ browser = 1
    /\ instances = <<[owner |-> 1, state |-> "started"]>>
    /\ executions = <<>>
    /\ pc = [r \in Reqs |-> IF r = 1 THEN "run" ELSE "off"]
    /\ \E n \in 0..MaxSteps : \E ix \in [1..n -> 1..Len(FillPool)] :
          steps = [r \in Reqs |-> IF r = 1 THEN Workflow(FillPool, ix, "contiguous")
                                  ELSE <<>>]
    /\ clickIn = NoClick
    /\ clickOut = NoClick
    /\ runner = NoRunner

SpecFill == InitFill /\ [][Next]_vars

\* SpecAlt, every awaited browser and advisor call returning
SpecLive == InitAlt /\ [][Next]_vars /\ WF_vars(Next)

(***************************************************************************)
(* Execute requests served by the one browser_service: one request, or two *)
(* whose coroutines interleave at their awaits                             *)
(***************************************************************************)
InitReq ==
    /\ InitCommon
    /\ \E both \in BOOLEAN :
          pc = [r \in Reqs |-> IF r = 1 \/ both THEN "start" ELSE "off"]
    /\ \E n1 \in 0..MaxReqSteps, n2 \in 0..MaxReqSteps :
       \E ix1 \in [1..n1 -> 1..Len(ReqPool)], ix2 \in [1..n2 -> 1..Len(ReqPool)] :
          steps = [r \in Reqs |-> IF r = 1 THEN Workflow(ReqPool, ix1, "contiguous")
                                  ELSE Workflow(ReqPool, ix2, "contiguous")]
    /\ clickIn = NoClick
    /\ clickOut = NoClick
    /\ runner = NoRunner

NextReq ==
    \E r \in Reqs :
        \/ Reject(r)
        \/ InitializeBrowser(r)
        \/ BrowserStarted(r)
        \/ Dispatch(r)
        \/ Recover(r)
        \/ Persist(r)
        \/ CloseBrowser(r)
        \/ BrowserClosed(r)

SpecReq == InitReq /\ [][NextReq]_vars

(***************************************************************************)
(* One execute request whose task may be cancelled.  execute_workflow      *)
(* takes no cancellation signal; the task of the request can be cancelled, *)
(* and asyncio raises CancelledError in it at the await it is suspended    *)
(* at.  Between two steps of the loop there is no await: the awaits of a   *)
(* run are the browser calls of its dispatches.  CancelledError is no      *)
(* Exception (Python 3.8 and later, which start.py requires), so no except *)
(* branch of BrowserService or of the endpoint catches it; the finally     *)
(* clause of the endpoint runs.                                            *)
(***************************************************************************)
\* the task was cancelled while call number j of the dispatch d was pending
Cancelled(pos, inst, d, j) ==
    [kind |-> "cancelled", pos |-> pos, inst |-> inst,
     calls |-> ActionCalls(SubSeq(d.calls, 1, j - 1)),
     pending |-> [op |-> d.calls[j].op, arg |-> d.calls[j].arg]]

\* execute_workflow line 327: CancelledError raised at a browser call of the
\* dispatch of the step at the loop's position; it leaves execute_workflow
\* (lines 358-366 do not catch it) and the endpoint's finally clause runs
CancelDispatch(r) ==
    /\ pc[r] = "run"
    /\ idx[r] <= Len(LoopSteps(steps[r]))
    /\ \E env \in Envs(LoopSteps(steps[r])[idx[r]], Live, RunAiAnswers,
                         {"none"}) :
          \E j \in 1..Len(execute_workflow_step(LoopSteps(steps[r])[idx[r]],
                                                context[ContextOf(r)], env).calls) :
              hist' = [hist EXCEPT ![r] = Append(@,
                         Cancelled(idx[r], browser,
                             execute_workflow_step(LoopSteps(steps[r])[idx[r]],
                                                   context[ContextOf(r)], env), j))]
    /\ pc' = [pc EXCEPT ![r] = "close"]
    /\ response' = [response EXCEPT ![r] = "cancelled"]
    /\ UNCHANGED <<steps, idx, results, context, report, mine, target,
                   browser, instances, executions, clickVars, runner>>

InitCancel ==
    /\ InitCommon
    /\ pc = [r \in Reqs |-> IF r = 1 THEN "start" ELSE "off"]
    /\ \E n \in 0..MaxSteps : \E ix \in [1..n -> 1..Len(ReqPool)] :
          steps = [r \in Reqs |-> IF r = 1
                                  THEN Workflow(ReqPool, ix, "contiguous")
                                  ELSE <<>>]
    /\ clickIn = NoClick
    /\ clickOut = NoClick
    /\ runner = NoRunner

NextCancel ==
    \E r \in Reqs :
        \/ Reject(r)
        \/ InitializeBrowser(r)
        \/ BrowserStarted(r)
        \/ Dispatch(r)
        \/ Recover(r)
        \/ CancelDispatch(r)
        \/ Persist(r)
        \/ CloseBrowser(r)
        \/ BrowserClosed(r)

SpecCancel == InitCancel /\ [][NextCancel]_vars

(***************************************************************************)
(* execute_workflow called twice on the same list object against the same  *)
(* deterministic browser and advisors.  Request 1 is the first call and     *)
(* request 2 the second, which starts when the first has returned.  The     *)
(* browser answers a call by its operation and argument alone (its          *)
(* screenshot call always succeeds), analyze_screenshot by the element      *)
(* searched for, generate_error_recovery_strategy by the step.              *)
(***************************************************************************)
\* the dispatch events of both calls, in order
ReplayDispatches(h) ==
    SelectSeq(h[1] \o h[2], LAMBDA e : e.kind = "dispatch")

\* the advisor consultations of both calls, in order
ReplayConsultations(h) ==
    SelectSeq(h[1] \o h[2], LAMBDA e : e.kind = "advisor")

\* the answers recorded in h are those of one deterministic environment
Deterministic(h) ==
    LET d == ReplayDispatches(h)
        a == ReplayConsultations(h)
    IN  /\ \A i \in 1..Len(d) : \A j \in 1..Len(d) :
             /\ \A m \in 1..Len(d[i].calls) : \A n \in 1..Len(d[j].calls) :
                   (/\ d[i].calls[m].op = d[j].calls[n].op
                    /\ d[i].calls[m].arg = d[j].calls[n].arg)
                       => d[i].calls[m].ok = d[j].calls[n].ok
             /\ (/\ d[i].step.action_type = "click"
                 /\ d[j].step.action_type = "click"
                 /\ d[i].step.target = d[j].step.target
                 /\ ~d[i].res.success /\ ~d[j].res.success)
                    => d[i].res.error = d[j].res.error
        /\ \A i \in 1..Len(d) : d[i].res.success => d[i].shot
        /\ \A i \in 1..Len(a) : \A j \in 1..Len(a) :
             a[i].pos = a[j].pos => a[i].answer = a[j].answer

InitReplay ==
    /\ idx = [r \in Reqs |-> 1]
    /\ results = [r \in Reqs |-> <<>>]
    /\ context = [r \in Reqs |-> <<>>]
    /\ report = [r \in Reqs |-> NoReport]
    /\ hist = [r \in Reqs |-> <<>>]
    /\ response = [r \in Reqs |-> "none"]
    /\ mine = [r \in Reqs |-> IF r = 1 THEN 1 ELSE 0]
    /\ target = [r \in Reqs |-> 0]
    /\ browser = 1
    /\ instances = <<[owner |-> 1, state |-> "started"]>>
    /\ executions = <<>>
    /\ pc = [r \in Reqs |-> IF r = 1 THEN "run" ELSE "wait"]
    /\ \E n \in 0..MaxSteps : \E ix \in [1..n -> 1..Len(AltPool)] :
          steps = [r \in Reqs |-> IF r = 1 THEN Workflow(AltPool, ix, "contiguous")
                                  ELSE <<>>]
    /\ clickIn = NoClick
    /\ clickOut = NoClick
    /\ runner = NoRunner

ReplayDispatch(r) == Dispatch(r) /\ Deterministic(hist')

ReplayRecover(r) == Recover(r) /\ Deterministic(hist')

\* the first call has returned; the second is made with the same list
\* object, as the first call left it
ReplayStart ==
    /\ pc[1] = "persist"
    /\ pc[2] = "wait"
    /\ pc' = [pc EXCEPT ![2] = "run"]
    /\ steps' = [steps EXCEPT ![2] = steps[1]]
    /\ UNCHANGED <<idx, results, context, report, hist, response, mine,
                   target, browser, instances, executions, clickVars, runner>>

NextReplay ==
    \/ \E r \in Reqs : ReplayDispatch(r) \/ ReplayRecover(r)
    \/ ReplayStart

SpecReplay == InitReplay /\ [][NextReplay]_vars

(***************************************************************************)
(* One _click_element call on a started browser                            *)
(***************************************************************************)
InitClick ==
    /\ InitCommon
    /\ pc = [r \in Reqs |-> "off"]
    /\ steps = [r \in Reqs |-> <<>>]
    /\ \E selector \in Locators, given \in BOOLEAN :
       \E fallback_selectors \in
            UNION { [1..k -> Locators] : k \in 0..MaxFallbacks } :
          clickIn = [done |-> TRUE, selector |-> selector,
                     parameters |-> IF given
                         THEN [fallback_selectors |-> fallback_selectors]
                         ELSE EmptyDict]
    /\ clickOut = NoClick
    /\ runner = NoRunner

ClickCall ==
    /\ clickIn.done
    /\ ~clickOut.done
    /\ \E env \in Envs(Step("click", clickIn.selector, clickIn.parameters),
                       TRUE, AiAnswers(MaxAi), {"none"}) :
        LET d == click_element(clickIn.selector, clickIn.parameters, env)
        IN  clickOut' = [done |-> TRUE, ai |-> env.ai, res |-> d.res,
                         calls |-> d.calls]
    /\ UNCHANGED <<pc, runVars, response, mine, target, browser, instances,
                   executions, clickIn, runner>>

NextClick == ClickCall

SpecClick == InitClick /\ [][NextClick]_vars

(***************************************************************************)
(* The standalone runner, app.py execute_workflow                          *)
(***************************************************************************)
\* everything of the service, which the standalone runner leaves alone
serviceVars == <<pc, runVars, response, mine, target, browser, instances,
                 executions, clickVars>>

\* the action types the loop of the runner has a branch for
RunnerHandled == {"navigate", "click", "fill", "extract", "wait"}

\* the steps the stored workflows of the runner are built from: two the loop
\* handles, one it has no branch for, and a dict without action_type
RunnerPool ==
    << Step("navigate", Url, EmptyDict),
       Step("click", "#a", EmptyDict),
       Step("hover", "#a", EmptyDict),
       [target |-> "#a"] >>

\* workflow['ai_interpreted_steps'] as stored: form "list" is JSON whose
\* interpreted_steps is a list, "not_iterable" is JSON whose interpreted_steps
\* is null or a number, "unparsable" is text json.loads or the key lookup
\* raises on
StoredSteps ==
    { [form |-> "list", steps |-> [i \in DOMAIN ix |-> RunnerPool[ix[i]]]] :
        ix \in UNION { [1..n -> 1..Len(RunnerPool)] : n \in 0..MaxSteps } }
    \cup { [form |-> f, steps |-> <<>>] : f \in {"not_iterable", "unparsable"} }

\* the row as inserted: status 'running', the two counters at their defaults
RunningRow == [status |-> "running", steps_completed |-> 0, total_steps |-> 0]
NoRow == [status |-> "none", steps_completed |-> 0, total_steps |-> 0]

\* one pass of the loop body on step i; ok is whether the browser calls of
\* the branch returned
RunnerStep(step_results, i, step, ok) ==
    IF "action_type" \notin DOMAIN step
    THEN Append(step_results, [step |-> i, success |-> FALSE])
    ELSE IF step.action_type \in RunnerHandled
    THEN Append(step_results, [step |-> i, success |-> ok])
    ELSE step_results

\* the successful results
RunnerSuccesses(step_results) ==
    SelectSeq(step_results, LAMBDA result : result.success)

\* success = all(r['success'] for r in results)
RunnerSuccess(step_results) ==
    \A k \in 1..Len(step_results) : step_results[k].success

\* the UPDATE after the loop
RunnerRow(step_results, stored_steps) ==
    [status |-> IF RunnerSuccess(step_results) THEN "completed" ELSE "failed",
     steps_completed |-> Len(RunnerSuccesses(step_results)),
     total_steps |-> Len(stored_steps)]

\* the UPDATE of the except branch: status only
RunnerFailedRow(row) == [row EXCEPT !.status = "failed"]

InitRunner ==
    /\ InitCommon
    /\ pc = [r \in Reqs |-> "off"]
    /\ steps = [r \in Reqs |-> <<>>]
    /\ clickIn = NoClick
    /\ clickOut = NoClick
    /\ \E stored \in StoredSteps :
          runner = [pc |-> "start", stored |-> stored, i |-> 1,
                    results |-> <<>>, driver |-> "none", row |-> NoRow,
                    ret |-> "none"]

\* the SELECT and the INSERT of the 'running' row
RunnerInsert ==
    /\ runner.pc = "start"
    /\ \E found \in BOOLEAN :
          runner' = IF found
                    THEN [runner EXCEPT !.pc = "parse", !.row = RunningRow]
                    ELSE [runner EXCEPT !.pc = "done", !.ret = "not_found"]
    /\ UNCHANGED serviceVars

\* json.loads(...)['interpreted_steps']
RunnerParse ==
    /\ runner.pc = "parse"
    /\ runner' = [runner EXCEPT !.pc = IF runner.stored.form = "unparsable"
                                       THEN "except" ELSE "driver"]
    /\ UNCHANGED serviceVars

\* webdriver.Chrome(...), which may raise; set_page_load_timeout is taken to
\* return
RunnerChrome ==
    /\ runner.pc = "driver"
    /\ \E started \in BOOLEAN :
          runner' = IF started
                    THEN [runner EXCEPT !.pc = "loop", !.driver = "started"]
                    ELSE [runner EXCEPT !.pc = "except"]
    /\ UNCHANGED serviceVars

\* one pass of for i, step in enumerate(steps); enumerate raises on a value
\* that is not iterable
RunnerLoop ==
    /\ runner.pc = "loop"
    /\ IF runner.stored.form = "not_iterable"
       THEN runner' = [runner EXCEPT !.pc = "except"]
       ELSE IF runner.i > Len(runner.stored.steps)
       THEN runner' = [runner EXCEPT !.pc = "quit"]
       ELSE \E ok \in BOOLEAN :
               runner' = [runner EXCEPT
                   !.results = RunnerStep(runner.results, runner.i,
                                          runner.stored.steps[runner.i], ok),
                   !.i = runner.i + 1]
    /\ UNCHANGED serviceVars

\* driver.quit(), which may raise
RunnerQuit ==
    /\ runner.pc = "quit"
    /\ \E ok \in BOOLEAN :
          runner' = [runner EXCEPT !.driver = "quit",
                                   !.pc = IF ok THEN "update" ELSE "except"]
    /\ UNCHANGED serviceVars

\* the UPDATE after the loop and the return of the report
RunnerUpdate ==
    /\ runner.pc = "update"
    /\ runner' = [runner EXCEPT
           !.row = RunnerRow(runner.results, runner.stored.steps),
           !.ret = "report", !.pc = "done"]
    /\ UNCHANGED serviceVars

\* the except branch: the UPDATE to 'failed' and the return of the error
RunnerExcept ==
    /\ runner.pc = "except"
    /\ runner' = [runner EXCEPT !.row = RunnerFailedRow(runner.row),
                                !.ret = "error", !.pc = "done"]
    /\ UNCHANGED serviceVars

NextRunner ==
    \/ RunnerInsert
    \/ RunnerParse
    \/ RunnerChrome
    \/ RunnerLoop
    \/ RunnerQuit
    \/ RunnerUpdate
    \/ RunnerExcept

SpecRunner == InitRunner /\ [][NextRunner]_vars

(***************************************************************************)
(* Properties                                                              *)
(***************************************************************************)
\* a run returned its report
Returned(r) == HasReport(r)

Events(r) == 1..Len(hist[r])

IsDispatch(e) == e.kind = "dispatch"

\* the recovery pass of the step at position k ran and did not end in a
\* successful re-dispatch
RecoveryFailedAt(r, k) ==
    /\ \E i \in Events(r) : hist[r][i].kind = "advisor" /\ hist[r][i].pos = k
    /\ ~\E i \in Events(r) :
            /\ IsDispatch(hist[r][i])
            /\ hist[r][i].pos = k
            /\ hist[r][i].phase # "first"
            /\ hist[r][i].res.success

\* C1: once the dispatch of step k failed and its recovery pass failed too,
\* no step after k is dispatched
C1_StopsAfterFailedRecovery ==
    \A r \in Reqs : \A k \in 1..Len(steps[r]) :
        RecoveryFailedAt(r, k) =>
            \A i \in Events(r) : IsDispatch(hist[r][i]) => hist[r][i].pos <= k

\* a run of two steps returned after step 1 failed for good
C1_Witness ==
    /\ Returned(1)
    /\ Len(steps[1]) = 2
    /\ RecoveryFailedAt(1, 1)

\* C2: every report has steps_completed <= total_steps and workflow_success
\* exactly when the two are equal
C2_ReportCounts ==
    \A r \in Reqs : Returned(r) =>
        /\ report[r].steps_completed <= report[r].total_steps
        /\ report[r].workflow_success =
              (report[r].steps_completed = report[r].total_steps)

\* a failed run of two steps returned its report through the except branch
C2_Witness ==
    /\ Returned(1)
    /\ "error" \in DOMAIN report[1]
    /\ report[1].total_steps = 2
    /\ ~report[1].workflow_success

\* C3 as claimed: a run that stopped at step k, steps 1..k-1 having
\* succeeded, reports the k results with the failure last, steps_completed
\* k-1 and workflow_success false
C3_PartialResultsRetained ==
    \A r \in Reqs : \A k \in 1..Len(steps[r]) :
        (Returned(r) /\ RecoveryFailedAt(r, k)) =>
            /\ Len(report[r].step_results) = k
            /\ ~report[r].step_results[k].success
            /\ report[r].steps_completed = k - 1
            /\ ~report[r].workflow_success

\* C4: after the advisor was consulted for step k, the only later event of
\* step k is the one re-dispatch that follows at once: no second
\* consultation and no further dispatch, also when the retry fails
C4_OneRecoveryPass ==
    \A r \in Reqs : \A i \in Events(r) : \A j \in Events(r) :
        (i < j /\ hist[r][i].kind = "advisor" /\ hist[r][j].pos = hist[r][i].pos)
            => /\ j = i + 1
               /\ IsDispatch(hist[r][j])
               /\ hist[r][j].phase # "first"

\* the advisor recommended immediate_retry, the retry failed and the run
\* returned
C4_Witness ==
    /\ Returned(1)
    /\ \E i \in Events(1) :
        /\ hist[1][i].kind = "advisor"
        /\ hist[1][i].answer = "immediate_retry"
        /\ i + 1 \in Events(1)
        /\ IsDispatch(hist[1][i + 1])
        /\ ~hist[1][i + 1].res.success

\* C5 as claimed: when the only execute request has ended, every BrowserUse
\* object made for it has been closed (close() was called on it)
C5_SessionClosedOnEveryExit ==
    (pc[2] = "off" /\ pc[1] = "done") =>
        \A i \in 1..Len(instances) :
            instances[i].state \in {"closed", "close_failed"}

\* C6 as claimed: of two concurrent requests, each one, while it runs its
\* steps, finds in self.browser the started object it made itself, and when
\* both have ended no object that was started is still open
C6_IndependentSessions ==
    (pc[1] # "off" /\ pc[2] # "off") =>
        /\ \A r \in Reqs : pc[r] \in {"run", "recover"} =>
              /\ browser = mine[r]
              /\ instances[mine[r]].state = "started"
        /\ (\A r \in Reqs : pc[r] = "done") =>
              \A i \in 1..Len(instances) : instances[i].state # "started"

\* C7 as claimed: the run returns a report in which every step that failed
\* for good is a result with success false
C7_FailuresAreData ==
    \A r \in Reqs : \A k \in 1..Len(steps[r]) :
        (pc[r] = "persist" /\ RecoveryFailedAt(r, k)) =>
            /\ Returned(r)
            /\ \E i \in 1..Len(report[r].step_results) :
                  ~report[r].step_results[i].success

WentThroughRecovery(r, k) ==
    \E i \in Events(r) : hist[r][i].kind = "advisor" /\ hist[r][i].pos = k

\* C11 as claimed: in the report, every step result whose step went through
\* the recovery pass carries recovery_attempted = true
C11_RecoveryAttemptedStamped ==
    \A r \in Reqs : Returned(r) =>
        \A k \in 1..Len(report[r].step_results) :
            WentThroughRecovery(r, k) =>
                /\ "recovery_attempted" \in DOMAIN report[r].step_results[k]
                /\ report[r].step_results[k].recovery_attempted

\* C12 as claimed: every dispatch result with success true has a non-empty
\* screenshot reference, and every result of a failed dispatch has none
C12_SuccessHasScreenshot ==
    \A r \in Reqs : \A i \in Events(r) :
        IsDispatch(hist[r][i]) =>
            IF hist[r][i].res.success
            THEN Truthy(Get(hist[r][i].res, "screenshot", None))
            ELSE ~Truthy(Get(hist[r][i].res, "screenshot", None))

\* C12 as amended: every dispatch result with success true has a screenshot
\* entry, which is the path of the screenshot taken after the action when
\* that screenshot call succeeded and the empty string when it raised;
\* every result of a failed dispatch has no screenshot reference
C12_ScreenshotEntry ==
    \A r \in Reqs : \A i \in Events(r) :
        IsDispatch(hist[r][i]) =>
            IF hist[r][i].res.success
            THEN /\ "screenshot" \in DOMAIN hist[r][i].res
                 /\ hist[r][i].res.screenshot =
                        (IF hist[r][i].shot THEN ShotPath ELSE "")
            ELSE ~Truthy(Get(hist[r][i].res, "screenshot", None))

\* a run returned in which one step succeeded with its screenshot call
\* failing and another failed
C12_Witness ==
    /\ Returned(1)
    /\ \E i \in Events(1) :
            /\ IsDispatch(hist[1][i])
            /\ hist[1][i].res.success
            /\ hist[1][i].res.screenshot = ""
    /\ \E i \in Events(1) :
            /\ IsDispatch(hist[1][i])
            /\ ~hist[1][i].res.success

\* C13 as claimed: the second of two execute_workflow calls on the same
\* step list, against the same deterministic browser and advisors, returns
\* the report the first returned
C13_ReplayIdentical ==
    (HasReport(1) /\ HasReport(2)) => report[2] = report[1]

\* C14: the events of a run go through the positions of the list in order;
\* each position is dispatched once with the step the list holds there, and
\* only after the step before it reached a successful final result; the
\* k-th step result of the report is a result of the k-th step
C14_StepsInOrder ==
    \A r \in Reqs :
        /\ \A i \in Events(r) : \A j \in Events(r) :
              i < j =>
                /\ hist[r][i].pos <= hist[r][j].pos
                /\ (IsDispatch(hist[r][i]) /\ IsDispatch(hist[r][j])
                    /\ hist[r][i].phase = "first" /\ hist[r][j].phase = "first")
                      => hist[r][i].pos < hist[r][j].pos
        /\ \A i \in Events(r) :
              /\ hist[r][i].pos \in 1..Len(steps[r])
              /\ (IsDispatch(hist[r][i]) /\ hist[r][i].phase = "first") =>
                    /\ hist[r][i].step.step_number =
                          steps[r][hist[r][i].pos].step_number
                    /\ \A k \in 1..(hist[r][i].pos - 1) :
                          \E j \in 1..(i - 1) :
                              /\ IsDispatch(hist[r][j])
                              /\ hist[r][j].pos = k
                              /\ hist[r][j].res.success
              /\ ~(IsDispatch(hist[r][i]) /\ hist[r][i].phase = "first") =>
                    \E j \in 1..(i - 1) :
                        /\ IsDispatch(hist[r][j])
                        /\ hist[r][j].phase = "first"
                        /\ hist[r][j].pos = hist[r][i].pos
        /\ Returned(r) =>
              /\ Len(report[r].step_results) <= Len(steps[r])
              /\ \A k \in 1..Len(report[r].step_results) :
                    \E i \in Events(r) :
                        /\ IsDispatch(hist[r][i])
                        /\ hist[r][i].pos = k
                        /\ hist[r][i].res = report[r].step_results[k]

\* a run of two steps returned both results, the first one after a recovery
C14_Witness ==
    /\ Returned(1)
    /\ Len(steps[1]) = 2
    /\ Len(report[1].step_results) = 2
    /\ WentThroughRecovery(1, 1)
    /\ steps[1][1].action_type # steps[1][2].action_type

\* C15 as claimed: for every step whose final result is a success, the
\* context holds under the step's number the data of that result
C15_ContextHoldsFinalData ==
    \A r \in Reqs : \A k \in 1..Len(results[r]) :
        results[r][k].success =>
            /\ steps[r][k].step_number \in DOMAIN context[r]
            /\ context[r][steps[r][k].step_number] = results[r][k].data

\* the action types execute_workflow_step dispatches on
KnownActionTypes ==
    {"navigate", "click", "fill", "extract", "wait", "conditional"}

\* C16 as claimed: a step of any other action type gets a failed result
\* with the unknown-action error and is dispatched once only, whatever the
\* advisor recommends
C16_UnknownNeverRetried ==
    \A r \in Reqs : \A i \in Events(r) :
        (IsDispatch(hist[r][i])
         /\ hist[r][i].step.action_type \notin KnownActionTypes) =>
            /\ ~hist[r][i].res.success
            /\ hist[r][i].res.error = "Unknown action type"
            /\ hist[r][i].phase = "first"

\* what a run has left to do: two passes (dispatch, recovery) for every
\* step from the loop's position on, one less when the step's dispatch is
\* done, nothing once the report is built
Remaining(r) ==
    IF pc[r] = "run" THEN 2 * (Len(steps[r]) - idx[r] + 1) + 1
    ELSE IF pc[r] = "recover" THEN 2 * (Len(steps[r]) - idx[r] + 1)
    ELSE 0

\* C17: every step of a run takes it closer to its report (no step is
\* dispatched again after its one recovery pass), and every run whose
\* calls all return reaches its report
C17_Terminates ==
    /\ [][Remaining(1)' < Remaining(1)]_vars
    /\ <>Returned(1)

\* a run returned in which the advisor was consulted for both steps and
\* recommended immediate_retry each time
C17_Witness ==
    /\ Returned(1)
    /\ WentThroughRecovery(1, 1)
    /\ WentThroughRecovery(1, 2)
    /\ \A i \in Events(1) :
          hist[1][i].kind = "advisor" => hist[1][i].answer = "immediate_retry"

\* C18: when generate_error_recovery_strategy raised, nothing is dispatched
\* after it and the run has returned a report of a failed run; a click
\* whose analyze_screenshot call raised has a failure value as its result,
\* and the run it belongs to goes on to its report
C18_AdvisorFailureAbsorbed ==
    \A r \in Reqs : \A i \in Events(r) :
        /\ (hist[r][i].kind = "advisor" /\ hist[r][i].answer = "raises") =>
              /\ i = Len(hist[r])
              /\ Returned(r)
              /\ ~report[r].workflow_success
              /\ report[r].steps_completed < report[r].total_steps
        /\ (IsDispatch(hist[r][i]) /\ ~hist[r][i].res.success
            /\ hist[r][i].res.error = "analyze_screenshot raised") =>
              /\ hist[r][i].step.action_type = "click"
              /\ "data" \notin DOMAIN hist[r][i].res
              /\ pc[r] \in {"run", "recover"} \/ Returned(r)

\* a click failed with analyze_screenshot raising, then the recovery advisor
\* raised too, and the run returned
C18_Witness ==
    /\ Returned(1)
    /\ \E i \in Events(1) :
          /\ IsDispatch(hist[1][i])
          /\ ~hist[1][i].res.success
          /\ hist[1][i].res.error = "analyze_screenshot raised"
          /\ i + 1 \in Events(1)
          /\ hist[1][i + 1].kind = "advisor"
          /\ hist[1][i + 1].answer = "raises"

\* C19 as claimed: a cancellation takes effect between steps, with no
\* browser call pending, and when the cancelled request has ended the
\* browser object made for it has been closed
C19_CancelBetweenSteps ==
    \A r \in Reqs : \A i \in Events(r) :
        hist[r][i].kind = "cancelled" =>
            /\ hist[r][i].pending.op = "none"
            /\ pc[r] = "done" =>
                  instances[mine[r]].state \in {"closed", "close_failed"}

\* the re-dispatches the alternative_approach pass made for position k
Alternatives(r, k) ==
    SelectSeq(hist[r], LAMBDA e : /\ e.kind = "dispatch"
                                  /\ e.pos = k
                                  /\ e.phase = "alternative")

\* C20 as claimed: after the advisor recommended alternative_approach for
\* the step at position k, the step is re-dispatched with the entries of
\* its fallback_selectors as target, in listed order, each after the one
\* before failed, until one succeeds or the list is exhausted
C20_AlternativeTriesEveryFallback ==
    \A r \in Reqs : \A i \in Events(r) :
        (hist[r][i].kind = "advisor"
         /\ hist[r][i].answer = "alternative_approach") =>
            LET k == hist[r][i].pos
                fallback_selectors ==
                    Get(steps[r][k].parameters, "fallback_selectors", <<>>)
                tried == Alternatives(r, k)
            IN  /\ Len(tried) <= Len(fallback_selectors)
                /\ \A n \in 1..Len(tried) :
                      /\ tried[n].step.target = fallback_selectors[n]
                      /\ n < Len(tried) => ~tried[n].res.success
                /\ \/ Len(tried) = Len(fallback_selectors)
                   \/ tried[Len(tried)].res.success

\* the recommendations lines 384 and 389 act on
ActedOn == {"immediate_retry", "alternative_approach"}

\* C21: when the advisor answered with manual_intervention, without a
\* recommended_action or with a value other than immediate_retry and
\* alternative_approach, the consultation is the last thing the run did:
\* no re-dispatch and no browser call follows, the recovery pass failed
\* (the loop stayed at the step) and the run returned
C21_NoRetryWithoutRecommendation ==
    \A r \in Reqs : \A i \in Events(r) :
        (/\ hist[r][i].kind = "advisor"
         /\ hist[r][i].answer \notin ActedOn \cup {"raises"}) =>
            /\ i = Len(hist[r])
            /\ idx[r] = hist[r][i].pos
            /\ Returned(r)

\* the advisor answered without a recommended_action, and with a value the
\* code does not know, for a step whose first dispatch made browser calls
C21_Witness ==
    /\ Returned(1)
    /\ Len(hist[1]) = 2
    /\ hist[1][1].calls # <<>>
    /\ hist[1][2].kind = "advisor"
    /\ hist[1][2].answer \in {"missing", "retry_with_delay"}

\* what the recovery pass of the step at position k returned, read from
\* the events of the run: the result of its re-dispatch, else the dict of
\* lines 406-408 when the advisor raised, else the dict of lines 400-404
RecoveryResultAt(r, k) ==
    LET again == SelectSeq(hist[r], LAMBDA e : /\ e.kind = "dispatch"
                                               /\ e.pos = k
                                               /\ e.phase # "first")
        asked == SelectSeq(hist[r], LAMBDA e : /\ e.kind = "advisor"
                                               /\ e.pos = k)
    IN  IF again # <<>> THEN again[1].res
        ELSE IF asked[1].answer = "raises" THEN Failure("advisor raised")
        ELSE RecoveryFailed(None)

\* C22 as claimed: in a report built after the loop, the entry of a step
\* that went through the recovery pass is the result the pass returned,
\* whether a success or a failure
C22_RecoveryResultRecorded ==
    \A r \in Reqs : \A k \in 1..Len(steps[r]) :
        (/\ Returned(r)
         /\ "screenshots" \in DOMAIN report[r]
         /\ \E i \in Events(r) :
                hist[r][i].kind = "advisor" /\ hist[r][i].pos = k) =>
            /\ k <= Len(report[r].step_results)
            /\ report[r].step_results[k] = RecoveryResultAt(r, k)

\* C23 as claimed: a run leaves the submitted steps as they were: every
\* step of the list still is the step its first dispatch was given, target,
\* parameters and step_number alike
C23_StepsUnchanged ==
    \A r \in Reqs : \A i \in Events(r) :
        (IsDispatch(hist[r][i]) /\ hist[r][i].phase = "first") =>
            steps[r][hist[r][i].pos] = hist[r][i].step

\* the evaluation of the condition of a dispatch completed: its browser
\* call returned, or the condition type needs none
Evaluated(e) ==
    /\ e.step.action_type = "conditional"
    /\ e.calls = <<>> \/ LastOk(e.calls)

\* C24: the dispatch of a conditional step whose evaluation completed
\* returns success with the boolean the browser answered in data.result;
\* after a first dispatch of this kind the advisor is not consulted for the
\* step, the loop moves past it, and a run that returned has dispatched the
\* step after it
C24_ConditionOutcomeIsData ==
    \A r \in Reqs : \A i \in Events(r) :
        (IsDispatch(hist[r][i]) /\ Evaluated(hist[r][i])) =>
            /\ hist[r][i].res.success
            /\ hist[r][i].res.data.result =
                  (IF hist[r][i].calls = <<>> THEN FALSE
                   ELSE hist[r][i].calls[1].val)
            /\ hist[r][i].phase = "first" =>
                  /\ ~\E j \in Events(r) : /\ hist[r][j].kind = "advisor"
                                            /\ hist[r][j].pos = hist[r][i].pos
                  /\ idx[r] > hist[r][i].pos
                  /\ (Returned(r) /\ hist[r][i].pos < Len(steps[r])) =>
                        \E j \in Events(r) :
                            /\ IsDispatch(hist[r][j])
                            /\ hist[r][j].pos = hist[r][i].pos + 1

\* a run of two conditional steps returned; the condition of the first, a
\* custom one, evaluated to false and the second step was dispatched
C24_Witness ==
    /\ Returned(1)
    /\ Len(hist[1]) >= 2
    /\ IsDispatch(hist[1][1])
    /\ hist[1][1].step.parameters.type = "custom"
    /\ hist[1][1].res.success
    /\ hist[1][1].res.data.result = FALSE
    /\ IsDispatch(hist[1][2])
    /\ hist[1][2].pos = 2

\* C25 as claimed: a dispatch that succeeds makes exactly one screenshot
\* call and a dispatch that fails makes none (dispatches of click steps
\* aside, whose AI-assisted search takes a screenshot of its own)
C25_OneScreenshotPerSuccess ==
    \A r \in Reqs : \A i \in Events(r) :
        (IsDispatch(hist[r][i]) /\ hist[r][i].step.action_type # "click") =>
            hist[r][i].shots = (IF hist[r][i].res.success THEN 1 ELSE 0)

\* C27 as claimed: a dispatch of a fill or extract step reports failure
\* only after the primary target and every entry of
\* parameters.fallback_selectors have been tried
C27_FillResolvesLikeClick ==
    \A r \in Reqs : \A i \in Events(r) :
        (/\ IsDispatch(hist[r][i])
         /\ hist[r][i].step.action_type \in {"fill", "extract"}
         /\ ~hist[r][i].res.success) =>
            \A sel \in {hist[r][i].step.target} \cup
                       {Get(hist[r][i].step.parameters,
                            "fallback_selectors", <<>>)[n] :
                          n \in 1..Len(Get(hist[r][i].step.parameters,
                                           "fallback_selectors", <<>>))} :
                \E c \in 1..Len(hist[r][i].calls) :
                    hist[r][i].calls[c].arg = sel

\* C29 as claimed: every entry of step_results in a report carries the
\* step_number and the action_type of the step it was produced for
C29_ResultsCarryStepIdentity ==
    \A r \in Reqs : Returned(r) =>
        \A k \in 1..Len(report[r].step_results) :
            /\ "step_number" \in DOMAIN report[r].step_results[k]
            /\ "action_type" \in DOMAIN report[r].step_results[k]
            /\ report[r].step_results[k].step_number = steps[r][k].step_number
            /\ report[r].step_results[k].action_type = steps[r][k].action_type

\* the screenshot references of the successful results, in order
RECURSIVE SuccessScreenshots(_)
SuccessScreenshots(rs) ==
    IF rs = <<>> THEN <<>>
    ELSE (IF rs[1].success /\ Truthy(rs[1].screenshot)
          THEN <<rs[1].screenshot>> ELSE <<>>)
         \o SuccessScreenshots(Tail(rs))

\* C30 as claimed: every report has a screenshots list, whatever the mix of
\* successful and failed results of the run, and the list holds the
\* references of the successful results in step order and nothing else
C30_ScreenshotsOfSuccesses ==
    \A r \in Reqs : Returned(r) =>
        /\ "screenshots" \in DOMAIN report[r]
        /\ report[r].screenshots = SuccessScreenshots(results[r])

\* the execution rows stored for request r
RowsOf(rows, r) == SelectSeq(rows, LAMBDA e : e.workflow_id = r)

\* request r failed outright: HTTP 500, no step dispatched, no report, no
\* execution row
FailedOutright(r) ==
    /\ pc[r] = "done"
    /\ response[r] = "500"
    /\ hist[r] = <<>>
    /\ report[r] = NoReport
    /\ RowsOf(executions, r) = <<>>

\* C31: when initialize_browser raises for a request, in the BrowserUse
\* constructor or in start(), the request ends at once with HTTP 500, no
\* step dispatched, no report and no execution row; a request that ended
\* dispatches nothing, builds no report and stores no row afterwards
C31_AcquisitionFailureIsOutright ==
    [][\A r \in Reqs :
        /\ (/\ pc[r] = "start" /\ pc'[r] # "start"
             /\ steps[r] # <<>> /\ mine'[r] = 0) => FailedOutright(r)'
        /\ (/\ pc[r] = "starting" /\ pc'[r] # "starting"
             /\ instances'[mine[r]].state = "failed") => FailedOutright(r)'
        /\ pc[r] = "done" =>
              /\ pc'[r] = "done"
              /\ hist'[r] = hist[r]
              /\ report'[r] = report[r]
              /\ RowsOf(executions', r) = RowsOf(executions, r)]_vars

\* a request ended with HTTP 500 because start() of its browser raised
C31_Witness ==
    /\ mine[1] # 0
    /\ instances[mine[1]].state = "failed"
    /\ FailedOutright(1)

\* the mapping m holds, under key, the data of a successful first dispatch
\* of run r
OwnEntry(r, m, key) ==
    \E i \in Events(r) :
        /\ IsDispatch(hist[r][i])
        /\ hist[r][i].phase = "first"
        /\ hist[r][i].res.success
        /\ hist[r][i].step.step_number = key
        /\ hist[r][i].res.data = m[key]

\* C32: the mapping a run writes holds nothing but what that run wrote (it
\* is empty until the run has dispatched a step, and no other run writes
\* it), and the context of a run's report holds nothing but data of that
\* run
C32_ContextOwnedByRun ==
    \A r \in Reqs :
        /\ \A key \in DOMAIN context[ContextOf(r)] :
              OwnEntry(r, context[ContextOf(r)], key)
        /\ (Returned(r) /\ "context" \in DOMAIN report[r]) =>
              \A key \in DOMAIN report[r].context :
                  OwnEntry(r, report[r].context, key)

\* one run recorded the data of two steps while the other, of one step,
\* returned a report whose context has its own entry only
C32_Witness ==
    /\ DOMAIN context[ContextOf(1)] = {1, 2}
    /\ Len(steps[2]) = 1
    /\ Returned(2)
    /\ "context" \in DOMAIN report[2]
    /\ DOMAIN report[2].context = {1}

\* C33: in the step results of a report only the last entry can be a
\* failure
C33_OnlyLastResultFails ==
    \A r \in Reqs : Returned(r) =>
        \A k \in 1..Len(report[r].step_results) :
            ~report[r].step_results[k].success =>
                k = Len(report[r].step_results)

\* a report of two step results, the first a success and the second a
\* failure
C33_Witness ==
    /\ Returned(1)
    /\ Len(report[1].step_results) = 2
    /\ report[1].step_results[1].success
    /\ ~report[1].step_results[2].success

\* C34: a report with workflow_success true has one successful step
\* result for every step of the submitted list, and every step of the list
\* was dispatched
C34_SuccessCoversEveryStep ==
    \A r \in Reqs : (Returned(r) /\ report[r].workflow_success) =>
        /\ Len(report[r].step_results) = Len(steps[r])
        /\ report[r].steps_completed = Len(steps[r])
        /\ \A k \in 1..Len(steps[r]) :
              /\ report[r].step_results[k].success
              /\ \E i \in Events(r) :
                    IsDispatch(hist[r][i]) /\ hist[r][i].pos = k

\* a run of two steps reported workflow_success true after its first step
\* had failed and been recovered
C34_Witness ==
    /\ Returned(1)
    /\ report[1].workflow_success
    /\ Len(steps[1]) = 2
    /\ \E i \in Events(1) : hist[1][i].kind = "advisor" /\ hist[1][i].pos = 1

\* C35: the context of a report has an entry for a step of the list only
\* if the first dispatch of that step returned success; a step that failed
\* or was never dispatched has none
C35_ContextOnlyOfSuccesses ==
    \A r \in Reqs : (Returned(r) /\ "context" \in DOMAIN report[r]) =>
        \A k \in 1..Len(steps[r]) :
            steps[r][k].step_number \in DOMAIN report[r].context =>
                \E i \in Events(r) :
                    /\ IsDispatch(hist[r][i])
                    /\ hist[r][i].pos = k
                    /\ hist[r][i].phase = "first"
                    /\ hist[r][i].res.success

\* a report whose context has the entry of step 1, which succeeded, and
\* none of step 2, whose dispatch and recovery failed
C35_Witness ==
    /\ Returned(1)
    /\ "context" \in DOMAIN report[1]
    /\ Len(steps[1]) = 2
    /\ Len(report[1].step_results) = 2
    /\ ~report[1].step_results[2].success
    /\ DOMAIN report[1].context = {steps[1][1].step_number}

\* C36: every stored execution row agrees with the report of its request
\* (status "completed" exactly when workflow_success, else "failed"; the
\* two counts are the report's), a request stores at most one row, and for
\* a request served alone the browser is still open while the run and the
\* storing go on and close_browser has closed it (or its close() has
\* raised) when the request ends after a run
C36_RecordAgreesWithReport ==
    /\ \A e \in 1..Len(executions) :
          LET r == executions[e].workflow_id
          IN  /\ Returned(r)
              /\ executions[e].status =
                    (IF report[r].workflow_success THEN "completed"
                     ELSE "failed")
              /\ executions[e].steps_completed = report[r].steps_completed
              /\ executions[e].total_steps = report[r].total_steps
              /\ Len(RowsOf(executions, r)) = 1
              /\ pc[r] \in {"close", "closing", "done"}
    /\ pc[2] = "off" =>
          /\ pc[1] \in {"run", "recover", "persist"} =>
                instances[mine[1]].state = "started"
          /\ (pc[1] = "done" /\ Returned(1)) =>
                instances[mine[1]].state \in {"closed", "close_failed"}

\* a request served alone ended: its run failed, the row stored says
\* "failed" and the browser is closed
C36_Witness ==
    /\ pc[2] = "off"
    /\ pc[1] = "done"
    /\ Len(executions) = 1
    /\ executions[1].status = "failed"
    /\ instances[mine[1]].state = "closed"

\* a request served alone ended after the commit of its row had raised:
\* nothing is stored and the browser is closed
C36_WitnessCommitFailed ==
    /\ pc[2] = "off"
    /\ pc[1] = "done"
    /\ Returned(1)
    /\ executions = <<>>
    /\ instances[mine[1]].state = "closed"

\* the browser calls of event e with the given op
CallsOf(e, op) == SelectSeq(e.calls, LAMBDA c : c.op = op)

\* event e is the dispatch of a fill step
FillDispatch(e) == IsDispatch(e) /\ e.step.action_type = "fill"

\* C39: in the dispatch of a fill step whose clear_first is true or absent,
\* the first browser call is clear on the step's locator and type, if it is
\* called at all, is the next call, on the same locator, after a clear that
\* returned; a clear that raised makes the dispatch fail with no type call.
\* With clear_first false, clear is never called.
C39_ClearBeforeType ==
    \A r \in Reqs : \A i \in Events(r) :
        FillDispatch(hist[r][i]) =>
            LET e == hist[r][i]
            IN  IF Get(e.step.parameters, "clear_first", TRUE)
                THEN /\ Len(e.calls) >= 1
                     /\ e.calls[1] = [op |-> "clear", arg |-> e.step.target,
                                      ok |-> e.calls[1].ok]
                     /\ Len(CallsOf(e, "clear")) = 1
                     /\ \A j \in 1..Len(e.calls) :
                           e.calls[j].op = "type" =>
                               /\ j = 2
                               /\ e.calls[1].ok
                               /\ e.calls[j].arg = e.step.target
                     /\ ~e.calls[1].ok =>
                           ~e.res.success /\ Len(CallsOf(e, "type")) = 0
                     /\ e.calls[1].ok => Len(CallsOf(e, "type")) = 1
                ELSE /\ Len(CallsOf(e, "clear")) = 0
                     /\ Len(CallsOf(e, "type")) = 1
                     /\ e.calls[1].op = "type"
                     /\ e.calls[1].arg = e.step.target

\* a run in which one fill cleared and then typed, one fill with clear_first
\* false typed without clearing, and one fill failed on a clear that raised
C39_Witness ==
    \E i, j, k \in Events(1) :
        /\ FillDispatch(hist[1][i])
        /\ "clear_first" \notin DOMAIN hist[1][i].step.parameters
        /\ Len(hist[1][i].calls) = 2
        /\ hist[1][i].calls[1].op = "clear" /\ hist[1][i].calls[1].ok
        /\ hist[1][i].calls[2].op = "type" /\ hist[1][i].calls[2].ok
        /\ hist[1][i].res.success
        /\ FillDispatch(hist[1][j])
        /\ ~Get(hist[1][j].step.parameters, "clear_first", TRUE)
        /\ hist[1][j].res.success
        /\ FillDispatch(hist[1][k])
        /\ Get(hist[1][k].step.parameters, "clear_first", TRUE)
        /\ ~hist[1][k].calls[1].ok
        /\ ~hist[1][k].res.success

(***************************************************************************)
(* Properties of the standalone runner                                     *)
(***************************************************************************)
\* the runner returned its report: the row is the one the UPDATE after the
\* loop wrote
RunnerReported == runner.pc = "done" /\ runner.ret = "report"

\* step k of the stored workflow has a successful result
RunnerStepSucceeded(k) ==
    \E j \in 1..Len(runner.results) :
        runner.results[j].step = k /\ runner.results[j].success

\* C37: the row of a run of the standalone runner that returned its report
\* has status 'completed' exactly when every step of the stored workflow
\* produced a successful result, and exactly when its steps_completed equals
\* its total_steps, whatever action types the stored steps have.
C37_CompletedIffEveryStepSucceeded ==
    RunnerReported =>
        /\ runner.row.status = "completed" <=>
              \A k \in 1..Len(runner.stored.steps) : RunnerStepSucceeded(k)
        /\ runner.row.status = "completed" <=>
              runner.row.steps_completed = runner.row.total_steps

\* C38: when the standalone runner has returned, the row it inserted as
\* 'running' is 'completed' or 'failed', and the Chrome driver it created has
\* been quit.
C38_RowSettledAndDriverQuit ==
    (runner.pc = "done" /\ runner.row.status # "none") =>
        /\ runner.row.status \in {"completed", "failed"}
        /\ runner.driver \in {"none", "quit"}

(***************************************************************************)
(* Properties of one _click_element call                                   *)
(***************************************************************************)
RECURSIVE Clicks(_)
Clicks(calls) ==
    IF calls = <<>> THEN <<>>
    ELSE (IF calls[1].op = "click" THEN <<calls[1]>> ELSE <<>>)
         \o Clicks(Tail(calls))

\* the locators the advisor proposed, in the order returned
RECURSIVE Proposed(_)
Proposed(elements) ==
    IF elements = <<>> THEN <<>>
    ELSE <<elements[1].selector>> \o Proposed(Tail(elements))

\* how often locator s occurs in the sequence q of locators
RECURSIVE Count(_, _)
Count(q, s) ==
    IF q = <<>> THEN 0
    ELSE (IF q[1] = s THEN 1 ELSE 0) + Count(Tail(q), s)

RECURSIVE Args(_)
Args(calls) ==
    IF calls = <<>> THEN <<>> ELSE <<calls[1].arg>> \o Args(Tail(calls))

ClickCandidates == Selectors(clickIn.selector, clickIn.parameters)

ProposedLocators(elements) ==
    SelectSeq(Proposed(elements), LAMBDA sel : sel # "")

\* the AI-assisted search of the call asked the advisor and got an answer:
\* every candidate was clicked and failed, the screenshot was taken and
\* analyze_screenshot returned
AdvisorAnswered ==
    /\ clickOut.done
    /\ Len(Clicks(clickOut.calls)) >= Len(ClickCandidates)
    /\ \A i \in 1..Len(ClickCandidates) : ~Clicks(clickOut.calls)[i].ok
    /\ \E i \in 1..Len(clickOut.calls) :
          clickOut.calls[i].op = "screenshot" /\ clickOut.calls[i].ok
    /\ ~clickOut.ai.raises

\* the clicks of the AI-assisted search: those after the candidates'
SearchClicks ==
    SubSeq(Clicks(clickOut.calls), Len(ClickCandidates) + 1,
           Len(Clicks(clickOut.calls)))

\* C26 as claimed: a locator beyond the candidates is clicked only after
\* every candidate failed, and once the advisor answered, the search clicks
\* the proposed locators in the order returned, each after the one before
\* failed, until one succeeds or all have been tried
C26_EveryProposedLocatorTried ==
    clickOut.done =>
        /\ Len(Clicks(clickOut.calls)) > Len(ClickCandidates) =>
              \A i \in 1..Len(ClickCandidates) : ~Clicks(clickOut.calls)[i].ok
        /\ AdvisorAnswered =>
              LET tried == SearchClicks
                  proposed == ProposedLocators(clickOut.ai.elements)
              IN  /\ Len(tried) <= Len(proposed)
                  /\ \A i \in 1..Len(tried) :
                        /\ tried[i].arg = proposed[i]
                        /\ i < Len(tried) => ~tried[i].ok
                  /\ \/ Len(tried) = Len(proposed)
                     \/ Len(tried) > 0 /\ tried[Len(tried)].ok

\* the error of line 297
ElementNotFound == "AI could not find the specified element"

\* C28 as claimed: a failed click result carries the element-not-found
\* error exactly when the primary locator, every fallback and every locator
\* the advisor proposed were clicked and failed
C28_NotFoundMeansAllTried ==
    (clickOut.done /\ ~clickOut.res.success) =>
        (clickOut.res.error = ElementNotFound <=>
            /\ AdvisorAnswered
            /\ \A i \in 1..Len(Clicks(clickOut.calls)) :
                  ~Clicks(clickOut.calls)[i].ok
            /\ Args(SearchClicks) = ProposedLocators(clickOut.ai.elements))

=============================================================================
